---- MODULE Spec2Model ----
(***************************************************************************)
(* Column layout store of the project tree table (ColumnSettingsProvider   *)
(* in buildTreeTableColumns.tsx): the persisted columns configuration, the *)
(* default column reconciliation run on every render, the direct setters,  *)
(* the reconciling updaters and the debounced sizing commit.               *)
(***************************************************************************)
EXTENDS Integers, Sequences, FiniteSets, TLC

VARIABLES
  config,      \* the `config` prop of the latest render (fields may be missing)
  owner,       \* <<>> or <<the configuration onChange received last>>, not yet rendered
  internal,    \* internalColumnSizing of the latest render: <<>> for null, else <<sizing>>
  pending,     \* <<>> or <<value>>: the value setInternalColumnSizing requested last
  timers,      \* pending setTimeout callbacks (each with the values its closure captured)
  timeoutRef,  \* resizingTimeoutRef.current: the timers the ref designates ({} = none)
  op,          \* name of the last operation handled
  arg,         \* argument of the last operation
  calls,       \* configurations handed to onChange by the last operation, in call order
  lastSizing,  \* <<>> or <<argument of the latest setColumnSizing call>>
  burst,       \* setColumnSizing calls of the current burst, counted up to 2
  elapsed,     \* milliseconds since the latest setColumnSizing call (up to ResizeDelay)
  commits,     \* sizing commits made since the first setColumnSizing call of the current burst
  steps,       \* operations, renders and ticks so far in a behaviour of bounded length
  mounted,     \* TRUE while the provider is mounted, FALSE once it has been unmounted
  inp,         \* the arguments of the pure function under evaluation (<<>> in the store)
  out          \* its local state and result (<<>> in the store)

vars ==
  <<config, owner, internal, pending, timers, timeoutRef, op, arg, calls, lastSizing, burst,
    elapsed, commits, steps, mounted, inp, out>>

\* ---------------------------------------------------------------- bounds
MaxOrderLen == 2   \* longest columnOrder argument in Spec
MaxPinArg == 2     \* longest pinning.left argument in Spec
MaxVis == 1        \* most keys of a columnVisibility argument in Spec
MaxSteps == 3      \* longest behaviour of Spec, in steps

\* ---------------------------------------------------------------- sequences
Range(s) == {s[i] : i \in DOMAIN s}

Includes(s, x) == x \in Range(s)

\* Array.prototype.indexOf: first position of x in s (1-based), 0 when absent
IndexOf(s, x) ==
  IF x \in Range(s) THEN CHOOSE i \in DOMAIN s : s[i] = x /\ \A j \in 1..(i - 1) : s[j] # x
  ELSE 0

\* Array.prototype.filter((x) => keep.includes(x))
RECURSIVE FilterIn(_, _)
FilterIn(s, keep) ==
  IF s = <<>> THEN <<>>
  ELSE IF Head(s) \in keep THEN <<Head(s)>> \o FilterIn(Tail(s), keep)
  ELSE FilterIn(Tail(s), keep)

\* Array.prototype.filter((x) => !drop.includes(x))
RECURSIVE FilterOut(_, _)
FilterOut(s, drop) ==
  IF s = <<>> THEN <<>>
  ELSE IF Head(s) \in drop THEN FilterOut(Tail(s), drop)
  ELSE <<Head(s)>> \o FilterOut(Tail(s), drop)

\* Array.prototype.splice(at, 0, x) with 0-based at <= Len(s)
InsertAt(s, at, x) == SubSeq(s, 1, at) \o <<x>> \o SubSeq(s, at + 1, Len(s))

\* Array.prototype.sort with comparator cmp[a, b]: a stable sort (insertion)
InsertSorted(sorted, x, cmp) ==
  LET stops == {j \in DOMAIN sorted : cmp[sorted[j], x] <= 0}
      k == IF stops = {} THEN 0 ELSE CHOOSE j \in stops : \A i \in stops : i <= j
  IN InsertAt(sorted, k, x)

RECURSIVE SortFrom(_, _, _, _)
SortFrom(sorted, s, i, cmp) ==
  IF i > Len(s) THEN sorted ELSE SortFrom(InsertSorted(sorted, s[i], cmp), s, i + 1, cmp)

StableSort(s, cmp) == SortFrom(<<>>, s, 1, cmp)

\* duplicate-free sequences over S of length at most n
SeqsUpTo(S, n) ==
  UNION {{s \in [1..k -> S] : \A i, j \in 1..k : i # j => s[i] # s[j]} : k \in 0..n}

\* mappings from at most n keys of S to values of V
MapsUpTo(S, V, n) ==
  UNION {[D -> V] : D \in {D \in SUBSET S : Cardinality(D) <= n}}

\* ---------------------------------------------------------------- configuration
Fields == {"columnVisibility", "columnOrder", "columnPinning", "columnSizing"}

\* destructuring with a default: the default applies when the field is undefined
Get(cfg, f, dflt) == IF f \in DOMAIN cfg THEN cfg[f] ELSE dflt

\* object spread with one field replaced: { ...cfg, [f]: v }
SpreadWith(cfg, f, v) ==
  [k \in (DOMAIN cfg) \cup {f} |-> IF k = f THEN v ELSE cfg[k]]

\* object spread with two fields replaced: { ...cfg, [f]: v, [g]: w }
SpreadWith2(cfg, f, v, g, w) == SpreadWith(SpreadWith(cfg, f, v), g, w)

\* pinning.left || []
LeftOf(pinning) == IF "left" \in DOMAIN pinning THEN pinning.left ELSE <<>>

\* ---------------------------------------------------------------- default column reconciliation
defaultOrder == <<"thumbnail", "name", "subType", "status", "tags">>

\* a plausible slip: a missing id whose predecessor is unknown is not inserted at all
ReconcileStepNoFront(st, i) ==
  LET col == defaultOrder[i]
  IN IF Includes(st.order, col) \/ i = 1 \/ ~Includes(st.order, defaultOrder[i - 1])
     THEN st
     ELSE [order |-> InsertAt(st.order, IndexOf(st.order, defaultOrder[i - 1]), col),
           pinning |-> st.pinning]

\* a plausible slip: splice(index, 0, col) puts the id before its predecessor
ReconcileStepBefore(st, i) ==
  LET col == defaultOrder[i]
      newOrder ==
        IF i = 1 \/ ~Includes(st.order, defaultOrder[i - 1])
        THEN <<col>> \o st.order
        ELSE InsertAt(st.order, IndexOf(st.order, defaultOrder[i - 1]) - 1, col)
      newPinning ==
        IF i < Len(defaultOrder) /\ "left" \in DOMAIN st.pinning
           /\ Includes(st.pinning.left, defaultOrder[i + 1])
        THEN SpreadWith(st.pinning, "left", <<col>> \o st.pinning.left)
        ELSE st.pinning
  IN IF Includes(st.order, col) THEN st
     ELSE [order |-> newOrder, pinning |-> newPinning]

\* a plausible slip: the id is pinned whether or not it was missing from the order
ReconcileStepPinAlways(st, i) ==
  LET col == defaultOrder[i]
      newOrder ==
        IF Includes(st.order, col) THEN st.order
        ELSE IF i = 1 \/ ~Includes(st.order, defaultOrder[i - 1])
        THEN <<col>> \o st.order
        ELSE InsertAt(st.order, IndexOf(st.order, defaultOrder[i - 1]), col)
      newPinning ==
        IF i < Len(defaultOrder) /\ "left" \in DOMAIN st.pinning
           /\ Includes(st.pinning.left, defaultOrder[i + 1])
        THEN SpreadWith(st.pinning, "left", <<col>> \o st.pinning.left)
        ELSE st.pinning
  IN [order |-> newOrder, pinning |-> newPinning]

\* a plausible slip: the id is pinned only when its successor is also in the order
ReconcileStepPinInOrder(st, i) ==
  LET col == defaultOrder[i]
      newOrder ==
        IF i = 1 \/ ~Includes(st.order, defaultOrder[i - 1])
        THEN <<col>> \o st.order
        ELSE InsertAt(st.order, IndexOf(st.order, defaultOrder[i - 1]), col)
      newPinning ==
        IF i < Len(defaultOrder) /\ "left" \in DOMAIN st.pinning
           /\ Includes(st.pinning.left, defaultOrder[i + 1])
           /\ Includes(st.order, defaultOrder[i + 1])
        THEN SpreadWith(st.pinning, "left", <<col>> \o st.pinning.left)
        ELSE st.pinning
  IN IF Includes(st.order, col) THEN st
     ELSE [order |-> newOrder, pinning |-> newPinning]

\* one iteration of defaultOrder.forEach((col, i) => ...), st = [order, pinning]
ReconcileStep(st, i) ==
  LET col == defaultOrder[i]
      hasBefore == i > 1
      hasAfter == i < Len(defaultOrder)
      newOrder ==
        IF ~hasBefore \/ ~Includes(st.order, defaultOrder[i - 1])
        THEN <<col>> \o st.order
        ELSE InsertAt(st.order, IndexOf(st.order, defaultOrder[i - 1]), col)
      newPinning ==
        IF hasAfter /\ "left" \in DOMAIN st.pinning
           /\ Includes(st.pinning.left, defaultOrder[i + 1])
        THEN SpreadWith(st.pinning, "left", <<col>> \o st.pinning.left)
        ELSE st.pinning
  IN IF Includes(st.order, col) THEN st
     ELSE [order |-> newOrder, pinning |-> newPinning]

RECURSIVE ReconcileFrom(_, _)
ReconcileFrom(st, i) ==
  IF i > Len(defaultOrder) THEN st ELSE ReconcileFrom(ReconcileStep(st, i), i + 1)

\* the (columnOrder, columnPinning) pair a render computes from the config prop
Reconcile(cfg) ==
  ReconcileFrom([order |-> Get(cfg, "columnOrder", <<>>),
                 pinning |-> Get(cfg, "columnPinning", <<>>)], 1)

\* ---------------------------------------------------------------- values the context exposes
\* a plausible slip: the reconciled order and pinning written back into columnsConfig
columnsConfigReconciled ==
  SpreadWith2(config, "columnOrder", Reconcile(config).order,
              "columnPinning", Reconcile(config).pinning)

\* const columnsConfig = config as ColumnsConfig: what the setters and updaters spread
columnsConfig == config

columnOrder == Reconcile(config).order
columnPinning == Reconcile(config).pinning
columnVisibility == Get(config, "columnVisibility", <<>>)
columnsSizingExternal == Get(config, "columnSizing", <<>>)
\* internalColumnSizing || columnsSizingExternal (an object, even empty, is truthy)
columnSizing == IF internal # <<>> THEN internal[1] ELSE columnsSizingExternal

\* ---------------------------------------------------------------- onChange
\* an operation named name with argument a hands the configurations cs to onChange;
\* the owner receives them, and the config prop stays what it is until the owner
\* renders the provider again
Handle(name, a, cs) ==
  /\ op' = name
  /\ arg' = a
  /\ calls' = cs
  /\ owner' = IF cs = <<>> THEN owner ELSE <<cs[Len(cs)]>>
  /\ UNCHANGED <<config, mounted, inp, out>>

\* a timer whose delay has elapsed: its callback runs when the event loop gets to it
TimerDue == \E t \in timers : t.remaining = 0

\* ---------------------------------------------------------------- direct setters
SetColumnVisibility(visibility) ==
  /\ Handle("setColumnVisibility", visibility,
            <<SpreadWith(columnsConfig, "columnVisibility", visibility)>>)
  /\ UNCHANGED <<internal, pending, timers, timeoutRef, lastSizing, burst, elapsed, commits>>

SetColumnOrder(order) ==
  /\ Handle("setColumnOrder", order, <<SpreadWith(columnsConfig, "columnOrder", order)>>)
  /\ UNCHANGED <<internal, pending, timers, timeoutRef, lastSizing, burst, elapsed, commits>>

SetColumnPinning(pinning) ==
  /\ Handle("setColumnPinning", pinning, <<SpreadWith(columnsConfig, "columnPinning", pinning)>>)
  /\ UNCHANGED <<internal, pending, timers, timeoutRef, lastSizing, burst, elapsed, commits>>

\* setColumnsConfig is onChange itself
SetColumnsConfig(cfg) ==
  /\ Handle("setColumnsConfig", cfg, <<cfg>>)
  /\ UNCHANGED <<internal, pending, timers, timeoutRef, lastSizing, burst, elapsed, commits>>

\* ---------------------------------------------------------------- side effect utilities
\* a plausible slip: the pinned columns are returned without the filter
togglePinningUnfiltered(visibility) ==
  SpreadWith(columnPinning, "left", LeftOf(columnPinning))

\* a plausible slip: the test on the visibility value is inverted
togglePinningInverted(visibility) ==
  LET shownColumns == {col \in DOMAIN visibility : visibility[col] = TRUE}
  IN SpreadWith(columnPinning, "left", FilterOut(LeftOf(columnPinning), shownColumns))

togglePinningOnVisibilityChange(visibility) ==
  LET hiddenColumns == {col \in DOMAIN visibility : visibility[col] = FALSE}
  IN SpreadWith(columnPinning, "left", FilterOut(LeftOf(columnPinning), hiddenColumns))

\* a plausible slip: the pinned columns keep their previous sequence
updatePinningOrderUnchanged(order) ==
  SpreadWith(columnPinning, "left", LeftOf(columnPinning))

\* a plausible slip: the filter runs over the pinned columns instead of the order
updatePinningOrderFilterPinned(order) ==
  SpreadWith(columnPinning, "left", FilterIn(LeftOf(columnPinning), Range(order)))

updatePinningOrderOnOrderChange(order) ==
  SpreadWith(columnPinning, "left", FilterIn(order, Range(LeftOf(columnPinning))))

\* a plausible slip: (a, b) => aPinned - bPinned
PinnedLast(pinning) ==
  [a \in Range(columnOrder), b \in Range(columnOrder) |->
     (IF Includes(LeftOf(pinning), a) THEN 1 ELSE 0)
     - (IF Includes(LeftOf(pinning), b) THEN 1 ELSE 0)]

\* (a, b) => bPinned - aPinned
PinnedFirst(pinning) ==
  [a \in Range(columnOrder), b \in Range(columnOrder) |->
     (IF Includes(LeftOf(pinning), b) THEN 1 ELSE 0)
     - (IF Includes(LeftOf(pinning), a) THEN 1 ELSE 0)]

\* a plausible slip: the persisted order is sorted instead of the reconciled one
updateOrderOnPinningChangeInit(pinning) ==
  StableSort(Get(config, "columnOrder", <<>>), PinnedFirst(pinning))

updateOrderOnPinningChange(pinning) == StableSort(columnOrder, PinnedFirst(pinning))

\* ---------------------------------------------------------------- updaters with side effects
UpdateColumnVisibility(visibility) ==
  /\ Handle("updateColumnVisibility", visibility,
            <<SpreadWith2(columnsConfig, "columnVisibility", visibility,
                          "columnPinning", togglePinningOnVisibilityChange(visibility))>>)
  /\ UNCHANGED <<internal, pending, timers, timeoutRef, lastSizing, burst, elapsed, commits>>

UpdateColumnOrder(order) ==
  /\ Handle("updateColumnOrder", order,
            <<SpreadWith2(columnsConfig, "columnOrder", order,
                          "columnPinning", updatePinningOrderOnOrderChange(order))>>)
  /\ UNCHANGED <<internal, pending, timers, timeoutRef, lastSizing, burst, elapsed, commits>>

UpdateColumnPinning(pinning) ==
  /\ Handle("updateColumnPinning", pinning,
            <<SpreadWith2(columnsConfig, "columnOrder", updateOrderOnPinningChange(pinning),
                          "columnPinning", pinning)>>)
  /\ UNCHANGED <<internal, pending, timers, timeoutRef, lastSizing, burst, elapsed, commits>>

\* ---------------------------------------------------------------- debounced sizing
ResizeDelay == 500

\* time passes in steps of these many milliseconds
Ticks == {250}

\* the callback setColumnSizing hands to setTimeout, with what its closure captured
ResizeTimer(sizing) ==
  [remaining |-> ResizeDelay, sizing |-> sizing, columnsConfig |-> columnsConfig]

\* a plausible slip: a pending timeout is kept and the new call schedules none
ScheduleResizeKeepFirst(sizing) == IF timers # {} THEN timers ELSE {ResizeTimer(sizing)}

\* a plausible slip: the previous timeout is not cleared
ScheduleResizeNoClear(sizing) == timers \cup {ResizeTimer(sizing)}

\* clearTimeout(resizingTimeoutRef.current), then the new setTimeout
ScheduleResize(sizing) == (timers \ timeoutRef) \cup {ResizeTimer(sizing)}

\* a setColumnSizing call made now starts a burst: none was made before, or the latest
\* one is at least the quiet period old
NewBurst == lastSizing = <<>> \/ elapsed >= ResizeDelay

\* setInternalColumnSizing(sizing) requests the overlay, which the next render shows
SetColumnSizingAs(name, a, sizing) ==
  /\ pending' = <<(<<sizing>>)>>
  /\ UNCHANGED internal
  /\ timers' = ScheduleResize(sizing)
  /\ timeoutRef' = {ResizeTimer(sizing)}
  /\ lastSizing' = <<sizing>>
  /\ elapsed' = 0
  /\ burst' = IF NewBurst THEN 1 ELSE 2
  /\ commits' = IF NewBurst THEN 0 ELSE commits
  /\ Handle(name, a, <<>>)

SetColumnSizing(sizing) == SetColumnSizingAs("setColumnSizing", sizing, sizing)

\* the state of the store after the timeout callback of timer t has run:
\* setInternalColumnSizing(null) is requested
AfterCommit(t) == [pending |-> <<(<<>>)>>, timers |-> timers \ {t}]

\* the timeout callback: onChange({...columnsConfig, columnSizing: sizing}), overlay reset
SizingCommit ==
  \E t \in timers :
    /\ t.remaining = 0
    /\ pending' = AfterCommit(t).pending
    /\ timers' = AfterCommit(t).timers
    /\ commits' = commits + 1
    /\ Handle("sizingCommit", t.sizing,
              <<SpreadWith(t.columnsConfig, "columnSizing", t.sizing)>>)
    /\ UNCHANGED <<internal, timeoutRef, lastSizing, burst, elapsed>>

\* d milliseconds pass while a timer is pending
Tick(d) ==
  /\ timers # {}
  /\ timers' = {[t EXCEPT !.remaining = IF @ > d THEN @ - d ELSE 0] : t \in timers}
  /\ timeoutRef' = {[t EXCEPT !.remaining = IF @ > d THEN @ - d ELSE 0] : t \in timeoutRef}
  /\ elapsed' = IF elapsed + d < ResizeDelay THEN elapsed + d ELSE ResizeDelay
  /\ Handle("tick", <<>>, <<>>)
  /\ UNCHANGED <<internal, pending, lastSizing, burst, commits>>

\* ---------------------------------------------------------------- renders
\* the provider renders with the config prop cfg: the render shows the state value
\* requested last, and its functions close over cfg
RenderWith(name, a, cfg) ==
  /\ mounted
  /\ config' = cfg
  /\ owner' = <<>>
  /\ internal' = IF pending = <<>> THEN internal ELSE pending[1]
  /\ pending' = <<>>
  /\ op' = name
  /\ arg' = a
  /\ calls' = <<>>
  /\ UNCHANGED <<timers, timeoutRef, lastSizing, burst, elapsed, commits, mounted, inp, out>>

\* the owner renders the provider again after onChange: with the configuration it
\* received (handBack) or, when it only records the change, with the one it had
Render(handBack) ==
  /\ owner # <<>>
  /\ RenderWith("render", <<>>, IF handBack THEN owner[1] ELSE config)

\* React renders the provider for a change of internalColumnSizing alone; what the
\* owner received is still to come
RenderState ==
  /\ mounted
  /\ pending # <<>>
  /\ internal' = pending[1]
  /\ pending' = <<>>
  /\ op' = "render"
  /\ arg' = <<>>
  /\ calls' = <<>>
  /\ UNCHANGED <<config, owner, timers, timeoutRef, lastSizing, burst, elapsed, commits,
                 mounted, inp, out>>

\* the owner passes a new config prop that no operation of the store produced
Load(cfg) == RenderWith("load", cfg, cfg)

\* ---------------------------------------------------------------- updater functions
\* functionalUpdate(updater, input): a plain value replaces the input, a function is
\* applied to it; the functions are the ones the table passes:
\*   hide/show id   (old) => ({ ...old, [id]: false/true })
\*   pin id         (old) => ({ ...old, left: [...left without id, id] })
\*   unpin id       (old) => ({ ...old, left: left without id })
\*   toFront id     (old) => [id, ...old without id]
\*   resize id w    (old) => ({ ...old, [id]: w })
functionalUpdate(updater, input) ==
  CASE updater.fn = "value" -> updater.value
    [] updater.fn = "hide" -> SpreadWith(input, updater.id, FALSE)
    [] updater.fn = "show" -> SpreadWith(input, updater.id, TRUE)
    [] updater.fn = "pin" ->
         SpreadWith(input, "left", FilterOut(LeftOf(input), {updater.id}) \o <<updater.id>>)
    [] updater.fn = "unpin" ->
         SpreadWith(input, "left", FilterOut(LeftOf(input), {updater.id}))
    [] updater.fn = "toFront" -> <<updater.id>> \o FilterOut(input, {updater.id})
    [] updater.fn = "resize" -> SpreadWith(input, updater.id, updater.width)

ColumnVisibilityUpdater(updater) ==
  LET newVisibility == functionalUpdate(updater, columnVisibility)
  IN /\ Handle("columnVisibilityUpdater", updater,
               <<SpreadWith2(columnsConfig, "columnVisibility", newVisibility,
                             "columnPinning", togglePinningOnVisibilityChange(newVisibility))>>)
     /\ UNCHANGED <<internal, pending, timers, timeoutRef, lastSizing, burst, elapsed, commits>>

ColumnOrderUpdater(updater) ==
  LET newOrder == functionalUpdate(updater, columnOrder)
  IN /\ Handle("columnOrderUpdater", updater,
               <<SpreadWith2(columnsConfig, "columnOrder", newOrder,
                             "columnPinning", updatePinningOrderOnOrderChange(newOrder))>>)
     /\ UNCHANGED <<internal, pending, timers, timeoutRef, lastSizing, burst, elapsed, commits>>

ColumnPinningUpdater(updater) ==
  LET newPinning == functionalUpdate(updater, columnPinning)
  IN /\ Handle("columnPinningUpdater", updater,
               <<SpreadWith2(columnsConfig, "columnOrder", updateOrderOnPinningChange(newPinning),
                             "columnPinning", newPinning)>>)
     /\ UNCHANGED <<internal, pending, timers, timeoutRef, lastSizing, burst, elapsed, commits>>

ColumnSizingUpdater(updater) ==
  SetColumnSizingAs("columnSizingUpdater", updater, functionalUpdate(updater, columnSizing))

\* ---------------------------------------------------------------- the layout store (Spec)
LayoutIds == {"thumbnail", "name"}

OrderArgs == SeqsUpTo(LayoutIds, MaxOrderLen)
PinningArgs == {<<>>} \cup {[left |-> l] : l \in SeqsUpTo(LayoutIds, MaxPinArg)}
VisibilityArgs == MapsUpTo(LayoutIds, BOOLEAN, MaxVis)

VisibilityUpdaters == {[fn |-> f, id |-> c] : f \in {"hide", "show"}, c \in LayoutIds}
OrderUpdaters == {[fn |-> "toFront", id |-> c] : c \in LayoutIds}
PinningUpdaters == {[fn |-> f, id |-> c] : f \in {"pin", "unpin"}, c \in LayoutIds}

LayoutSizings == {[name |-> 100]}
LayoutSizingUpdaters == {[fn |-> "resize", id |-> "name", width |-> 120]}

EmptyConfig ==
  [columnVisibility |-> <<>>, columnOrder |-> <<>>, columnPinning |-> <<>>,
   columnSizing |-> <<>>]

\* a configuration keeping only the fields in D (a partial, legacy configuration)
Restrict(cfg, D) == [k \in D |-> cfg[k]]

\* the persisted configurations: every partial form of the empty one, and one that
\* hides name
LayoutConfigs ==
  {Restrict(EmptyConfig, D) : D \in SUBSET Fields}
    \cup {[EmptyConfig EXCEPT !.columnVisibility = [name |-> FALSE]]}

\* the store variables
storeVars ==
  <<config, owner, internal, pending, timers, timeoutRef, op, arg, calls, lastSizing, burst,
    elapsed, commits, steps, mounted>>

\* the store as constructed with the config prop cfg
InitStore(cfg) ==
  /\ config = cfg
  /\ owner = <<>>
  /\ internal = <<>>
  /\ pending = <<>>
  /\ timers = {}
  /\ timeoutRef = {}
  /\ op = "init"
  /\ arg = <<>>
  /\ calls = <<>>
  /\ lastSizing = <<>>
  /\ burst = 0
  /\ elapsed = 0
  /\ commits = 0
  /\ steps = 0
  /\ mounted = TRUE

InitWith(cfg) ==
  /\ InitStore(cfg)
  /\ inp = <<>>
  /\ out = <<>>

\* no store in use: the store variables at rest
StoreIdle == InitStore(<<>>)

Init == \E cfg \in LayoutConfigs : InitWith(cfg)

\* a behaviour of Spec has at most MaxSteps steps
Counted == steps < MaxSteps /\ steps' = steps + 1

Next ==
  \/ \E v \in VisibilityArgs : Counted /\ SetColumnVisibility(v)
  \/ \E o \in OrderArgs : Counted /\ SetColumnOrder(o)
  \/ \E p \in PinningArgs : Counted /\ SetColumnPinning(p)
  \/ \E v \in VisibilityArgs : Counted /\ UpdateColumnVisibility(v)
  \/ \E o \in OrderArgs : Counted /\ UpdateColumnOrder(o)
  \/ \E p \in PinningArgs : Counted /\ UpdateColumnPinning(p)
  \/ \E u \in VisibilityUpdaters : Counted /\ ColumnVisibilityUpdater(u)
  \/ \E u \in OrderUpdaters : Counted /\ ColumnOrderUpdater(u)
  \/ \E u \in PinningUpdaters : Counted /\ ColumnPinningUpdater(u)
  \/ \E cfg \in LayoutConfigs : Counted /\ SetColumnsConfig(cfg)
  \/ \E s \in LayoutSizings : Counted /\ SetColumnSizing(s)
  \/ \E u \in LayoutSizingUpdaters : Counted /\ ColumnSizingUpdater(u)
  \/ Counted /\ SizingCommit
  \/ Counted /\ Tick(ResizeDelay)
  \/ \E handBack \in BOOLEAN : Counted /\ Render(handBack)
  \/ Counted /\ RenderState

Spec == Init /\ [][Next]_vars

\* ---------------------------------------------------------------- the resize gesture (SpecSizing)
SizingArgs == {<<>>, [a |-> 100]}
SizingUpdaters == {[fn |-> "resize", id |-> "b", width |-> 80]}

SizingConfigs ==
  {<<>>, [EmptyConfig EXCEPT !.columnSizing = [a |-> 80], !.columnPinning = [left |-> <<"a">>]]}

InitSizing == \E cfg \in SizingConfigs : InitWith(cfg)

NextSizing ==
  \/ \E s \in SizingArgs : SetColumnSizing(s) /\ UNCHANGED steps
  \/ \E u \in SizingUpdaters : ColumnSizingUpdater(u) /\ UNCHANGED steps
  \/ SizingCommit /\ UNCHANGED steps
  \/ \E d \in Ticks : Tick(d) /\ UNCHANGED steps
  \/ \E cfg \in SizingConfigs : Load(cfg) /\ UNCHANGED steps
  \/ \E handBack \in BOOLEAN : Render(handBack) /\ UNCHANGED steps
  \/ RenderState /\ UNCHANGED steps
  \/ UpdateColumnVisibility([a |-> FALSE]) /\ UNCHANGED steps
  \/ SetColumnOrder(<<"a">>) /\ UNCHANGED steps

SpecSizing == InitSizing /\ [][NextSizing]_vars

\* the resize gesture alone, with loads of the configuration in between
NextSizingLive ==
  \/ \E s \in SizingArgs : SetColumnSizing(s) /\ UNCHANGED steps
  \/ \E u \in SizingUpdaters : ColumnSizingUpdater(u) /\ UNCHANGED steps
  \/ SizingCommit /\ UNCHANGED steps
  \/ \E d \in Ticks : Tick(d) /\ UNCHANGED steps
  \/ \E cfg \in SizingConfigs : Load(cfg) /\ UNCHANGED steps
  \/ \E handBack \in BOOLEAN : Render(handBack) /\ UNCHANGED steps
  \/ RenderState /\ UNCHANGED steps

\* time passes and the event loop runs a timeout callback that is due
SpecSizingLive ==
  /\ InitSizing
  /\ [][NextSizingLive]_vars
  /\ WF_timers(\E d \in Ticks : Tick(d) /\ UNCHANGED steps)
  /\ WF_timers(SizingCommit /\ UNCHANGED steps)

\* ---------------------------------------------------------------- unmounting the provider (SpecTeardown)
\* React unmounts the provider; the component registers no cleanup, so the state of
\* the timers is left as it is
Teardown ==
  /\ mounted
  /\ mounted' = FALSE
  /\ op' = "teardown"
  /\ arg' = <<>>
  /\ calls' = <<>>
  /\ UNCHANGED <<config, owner, internal, pending, timers, timeoutRef, lastSizing, burst,
                 elapsed, commits, inp, out>>

\* the functions of the latest render can be called, time passes and timeout
\* callbacks run whether the provider is mounted or not; it renders while mounted
NextTeardown ==
  \/ \E s \in SizingArgs : SetColumnSizing(s) /\ UNCHANGED steps
  \/ UpdateColumnVisibility([a |-> FALSE]) /\ UNCHANGED steps
  \/ SizingCommit /\ UNCHANGED steps
  \/ \E d \in Ticks : Tick(d) /\ UNCHANGED steps
  \/ \E handBack \in BOOLEAN : Render(handBack) /\ UNCHANGED steps
  \/ RenderState /\ UNCHANGED steps
  \/ Teardown /\ UNCHANGED steps

SpecTeardown == InitSizing /\ [][NextTeardown]_vars

\* ---------------------------------------------------------------- one call on a given configuration (SpecCall)
MaxCallLen == 2   \* longest persisted columnOrder and columnOrder argument in SpecCall
MaxCallPin == 2   \* longest persisted pinning.left and pinning.left argument in SpecCall

CallIds == {"a", "b", "name"}

CallOrders ==
  SeqsUpTo(CallIds, MaxCallLen)
    \cup {<<"a", "b", "c", "d">>, <<"d", "c", "b", "a">>, <<"custom1">>}
CallLefts == SeqsUpTo(CallIds, MaxCallPin) \cup {<<"b", "d">>, <<"c">>}
CallPinnings == {<<>>} \cup {[left |-> l] : l \in CallLefts}
CallVisibilities == MapsUpTo(CallIds, BOOLEAN, MaxVis)

CallConfigs ==
  {[columnVisibility |-> v, columnOrder |-> o, columnPinning |-> p, columnSizing |-> <<>>] :
     v \in {<<>>, [b |-> FALSE]}, o \in CallOrders, p \in CallPinnings}
  \cup {Restrict([EmptyConfig EXCEPT !.columnPinning = [left |-> <<"name">>]], D) :
          D \in SUBSET Fields}

InitCall == \E cfg \in CallConfigs : InitWith(cfg)

NextCall ==
  \/ \E v \in CallVisibilities : op = "init" /\ SetColumnVisibility(v) /\ UNCHANGED steps
  \/ \E o \in CallOrders : op = "init" /\ SetColumnOrder(o) /\ UNCHANGED steps
  \/ \E p \in CallPinnings : op = "init" /\ SetColumnPinning(p) /\ UNCHANGED steps
  \/ \E v \in CallVisibilities : op = "init" /\ UpdateColumnVisibility(v) /\ UNCHANGED steps
  \/ \E o \in CallOrders : op = "init" /\ UpdateColumnOrder(o) /\ UNCHANGED steps
  \/ \E p \in CallPinnings : op = "init" /\ UpdateColumnPinning(p) /\ UNCHANGED steps

SpecCall == InitCall /\ [][NextCall]_vars

\* ---------------------------------------------------------------- one render's reconciliation (SpecRecon)
MaxReconLen == 3   \* longest persisted columnOrder in SpecRecon
MaxReconPin == 2   \* longest persisted pinning.left in SpecRecon

ReconOrderIds == {"custom1", "thumbnail", "name", "subType", "status", "tags"}
ReconPinIds == {"custom1", "name", "subType", "tags"}

ReconConfigs ==
  {[columnOrder |-> o, columnPinning |-> [left |-> l]] :
     o \in SeqsUpTo(ReconOrderIds, MaxReconLen), l \in SeqsUpTo(ReconPinIds, MaxReconPin)}
  \cup {[columnOrder |-> o, columnPinning |-> <<>>] : o \in {<<>>, <<"custom1">>}}
  \cup {<<>>, [columnPinning |-> [left |-> <<"name">>]]}

\* the copies of lines 491-492, before the first iteration
ReconcileStart(cfg) ==
  [order |-> Get(cfg, "columnOrder", <<>>), pinning |-> Get(cfg, "columnPinning", <<>>),
   i |-> 1]

InitRecon ==
  \E cfg \in ReconConfigs :
    /\ StoreIdle
    /\ inp = cfg
    /\ out = ReconcileStart(cfg)

\* the next iteration of defaultOrder.forEach
ReconcileNext ==
  /\ out.i <= Len(defaultOrder)
  /\ LET st == ReconcileStep([order |-> out.order, pinning |-> out.pinning], out.i)
     IN out' = [out EXCEPT !.order = st.order, !.pinning = st.pinning, !.i = out.i + 1]
  /\ UNCHANGED <<storeVars, inp>>

\* the reconciled order and pinning come back as the persisted ones and the next render
\* reconciles them; first keeps what the first reconciliation produced
ReconcileAgain ==
  /\ out.i > Len(defaultOrder)
  /\ "first" \notin DOMAIN out
  /\ out' = [order |-> out.order, pinning |-> out.pinning, i |-> 1,
             first |-> [order |-> out.order, pinning |-> out.pinning]]
  /\ UNCHANGED <<storeVars, inp>>

NextRecon ==
  \/ ReconcileNext
  \/ ReconcileAgain

SpecRecon == InitRecon /\ [][NextRecon]_vars

\* ---------------------------------------------------------------- buildTreeTableColumns (SpecBuild)
MaxAttribs == 2    \* longest attribs list in SpecBuild
MaxExcluded == 2   \* most ids of an excluded list in SpecBuild
MaxExtras == 2     \* longest extraColumns list in SpecBuild

\* imported from ./context/SelectionCellsContext
ROW_SELECTION_COLUMN_ID == "selection"

\* the ids of type DefaultColumns
DefaultColumns ==
  <<ROW_SELECTION_COLUMN_ID, "thumbnail", "name", "status", "subType", "assignees", "tags">>

\* options.status and the enum of the priority attribute
StatusOptions == <<[value |-> "A"], [value |-> "B"], [value |-> "C"]>>

\* attribute descriptors: name, builtin, data (type and, for enums, the options)
AttribOf(name, builtin) ==
  [name |-> name, builtin |-> builtin,
   data |-> IF name = "priority" THEN [type |-> "string", enum |-> StatusOptions]
            ELSE [type |-> "float"]]

Attribs == {AttribOf(n, b) : n \in {"priority", "fps"}, b \in BOOLEAN}

ExcludableIds == Range(DefaultColumns) \cup {"attrib", "attrib_priority", "attrib_fps"}

Excludeds == {ex \in SUBSET ExcludableIds : Cardinality(ex) <= MaxExcluded}

\* extra columns: a column of the caller and an optional position
ExtraPositions == {-1, 0, 7}

Extras ==
  {[column |-> [id |-> id]] : id \in {"extra1", "extra2", "name"}}
  \cup {[column |-> [id |-> id], position |-> pos] :
          id \in {"extra1", "extra2", "name"}, pos \in ExtraPositions}

BaseProps(attribs, showHierarchy) ==
  [attribs |-> attribs, showHierarchy |-> showHierarchy,
   options |-> [status |-> StatusOptions]]

\* the props of the calls in SpecBuild: schemas and exclusions without extra columns,
\* and extra columns over a few schemas and exclusions
BuildProps ==
  {BaseProps(at, sh) : at \in SeqsUpTo(Attribs, MaxAttribs), sh \in BOOLEAN}
  \cup {SpreadWith(BaseProps(at, sh), "excluded", ex) :
          at \in SeqsUpTo(Attribs, MaxAttribs), sh \in BOOLEAN, ex \in Excludeds}
  \cup {SpreadWith(p, "extraColumns", xs) :
          p \in {BaseProps(<<>>, TRUE),
                 BaseProps(<<AttribOf("priority", TRUE)>>, TRUE),
                 SpreadWith(BaseProps(<<>>, FALSE), "excluded", {"thumbnail"})},
          xs \in SeqsUpTo(Extras, MaxExtras)}

\* excluded?.includes(id)
ExcludedIncludes(props, id) == id \in Get(props, "excluded", {})

\* isIncluded, line 91
isIncluded(props, id) == ~ExcludedIncludes(props, id)

\* if (isIncluded(col.id)) staticColumns.push(col)
PushIncluded(props, cols, col) ==
  IF isIncluded(props, col.id) THEN Append(cols, col) ELSE cols

\* sortingFn: withLoadingStateSort(fn)
withLoadingStateSortOf(fn) == [decorator |-> "withLoadingStateSort", fn |-> fn]

selectionColumn == [id |-> ROW_SELECTION_COLUMN_ID, enableSorting |-> FALSE]
thumbnailColumn == [id |-> "thumbnail", enableSorting |-> FALSE]
nameColumn(props) ==
  [id |-> "name", enableSorting |-> TRUE,
   sortingFn |-> withLoadingStateSortOf(
                   [name |-> IF props.showHierarchy THEN "nameSort" ELSE "pathSort"])]
statusColumn(props) ==
  [id |-> "status", enableSorting |-> TRUE, sortDescFirst |-> TRUE,
   sortingFn |-> withLoadingStateSortOf(
                   [name |-> "attribSort",
                    attrib |-> [enum |-> props.options.status, type |-> "string"]])]
subTypeColumn == [id |-> "subType", enableSorting |-> TRUE]
assigneesColumn == [id |-> "assignees", enableSorting |-> TRUE]
tagsColumn == [id |-> "tags", enableSorting |-> TRUE]

\* a plausible slip: subType pushed before status, as in defaultOrder
staticColumnsCanonical(props) ==
  LET c1 == PushIncluded(props, <<>>, selectionColumn)
      c2 == PushIncluded(props, c1, thumbnailColumn)
      c3 == PushIncluded(props, c2, nameColumn(props))
      c4 == PushIncluded(props, c3, subTypeColumn)
      c5 == PushIncluded(props, c4, statusColumn(props))
      c6 == PushIncluded(props, c5, assigneesColumn)
  IN PushIncluded(props, c6, tagsColumn)

\* staticColumns after the seven conditional pushes, lines 87-334
staticColumns(props) ==
  LET c1 == PushIncluded(props, <<>>, selectionColumn)
      c2 == PushIncluded(props, c1, thumbnailColumn)
      c3 == PushIncluded(props, c2, nameColumn(props))
      c4 == PushIncluded(props, c3, statusColumn(props))
      c5 == PushIncluded(props, c4, subTypeColumn)
      c6 == PushIncluded(props, c5, assigneesColumn)
  IN PushIncluded(props, c6, tagsColumn)

\* a plausible slip: the sentinel hides every attribute
attribFilterAll(props, attrib) ==
  /\ ~ExcludedIncludes(props, "attrib_" \o attrib.name)
  /\ ~ExcludedIncludes(props, "attrib")

\* the predicate of attribs.filter, lines 337-344
attribFilter(props, attrib) ==
  /\ ~ExcludedIncludes(props, "attrib_" \o attrib.name)
  /\ ~(attrib.builtin /\ ExcludedIncludes(props, "attrib"))

\* the callback of .map, lines 345-388; attrib is the descriptor its closures capture
attribColumn(attrib) ==
  [id |-> "attrib_" \o attrib.name, enableSorting |-> TRUE, attrib |-> attrib,
   sortingFn |-> withLoadingStateSortOf([name |-> "attribSort", attrib |-> attrib.data])]

attributeColumns(props) ==
  LET kept == SelectSeq(props.attribs, LAMBDA a : attribFilter(props, a))
  IN [i \in 1..Len(kept) |-> attribColumn(kept[i])]

\* a plausible slip: the else is missing, a spliced column is pushed as well
SpliceExtraNoElse(allColumns, extra) ==
  LET position == Get(extra, "position", -1)
  IN IF position >= 0 /\ position < Len(allColumns)
     THEN Append(InsertAt(allColumns, position, extra.column), extra.column)
     ELSE Append(allColumns, extra.column)

\* a plausible slip: position 0 taken for no position
SpliceExtraTruthy(allColumns, extra) ==
  LET position == Get(extra, "position", -1)
  IN IF position > 0 /\ position < Len(allColumns)
     THEN InsertAt(allColumns, position, extra.column)
     ELSE Append(allColumns, extra.column)

\* the callback of extraColumns.forEach, lines 395-401
SpliceExtra(allColumns, extra) ==
  LET position == Get(extra, "position", -1)
  IN IF position >= 0 /\ position < Len(allColumns)
     THEN InsertAt(allColumns, position, extra.column)
     ELSE Append(allColumns, extra.column)

InitBuild ==
  \E props \in BuildProps :
    /\ StoreIdle
    /\ inp = props
    /\ out = [pc |-> "start", allColumns |-> <<>>, k |-> 1]

\* lines 87-391: allColumns = [...staticColumns, ...attributeColumns]
BuildAllColumns ==
  /\ out.pc = "start"
  /\ out' = [pc |-> "extras", allColumns |-> staticColumns(inp) \o attributeColumns(inp),
             k |-> 1]
  /\ UNCHANGED <<storeVars, inp>>

\* one iteration of extraColumns.forEach
AddExtraColumn ==
  /\ out.pc = "extras"
  /\ out.k <= Len(Get(inp, "extraColumns", <<>>))
  /\ out' = [pc |-> "extras",
             allColumns |-> SpliceExtra(out.allColumns, inp.extraColumns[out.k]),
             k |-> out.k + 1]
  /\ UNCHANGED <<storeVars, inp>>

\* return allColumns
ReturnAllColumns ==
  /\ out.pc = "extras"
  /\ out.k > Len(Get(inp, "extraColumns", <<>>))
  /\ out' = [out EXCEPT !.pc = "done"]
  /\ UNCHANGED <<storeVars, inp>>

NextBuild ==
  \/ BuildAllColumns
  \/ AddExtraColumn
  \/ ReturnAllColumns

SpecBuild == InitBuild /\ [][NextBuild]_vars

\* ---------------------------------------------------------------- the sort strategies (SpecSort)
MaxSortRows == 3   \* longest list of rows sorted in SpecSort

\* a cell without value
Undefined == "undefined"

Sign(n) == IF n < 0 THEN -1 ELSE IF n > 0 THEN 1 ELSE 0

\* String.prototype.localeCompare over the labels of SpecSort
LocaleOrder == <<"a", "b">>
localeCompare(x, y) == Sign(IndexOf(LocaleOrder, x) - IndexOf(LocaleOrder, y))

\* sortingFns.datetime of the table library: a > b ? 1 : a < b ? -1 : 0 on the raw
\* values; strings compare by code units, undefined compares false both ways
CodeUnitOrder == <<"10", "9", "A", "B", "C", "Z">>
sortingFnsDatetime(x, y) ==
  IF x = Undefined \/ y = Undefined THEN 0
  ELSE Sign(IndexOf(CodeUnitOrder, x) - IndexOf(CodeUnitOrder, y))

\* sortingFns.alphanumeric of the table library: the values as lower-case strings
\* (undefined as the empty string), digit runs compared as numbers, letters before
\* numbers
AlphanumericOrder == <<Undefined, "A", "B", "C", "Z", "9", "10">>
sortingFnsAlphanumeric(x, y) ==
  Sign(IndexOf(AlphanumericOrder, x) - IndexOf(AlphanumericOrder, y))

\* getCellValue of ./utils/cellUtils: a field of the row, or of its attrib for attrib_*
getCellValue(original, columnId) ==
  IF columnId \in DOMAIN original THEN original[columnId]
  ELSE IF /\ "attrib" \in DOMAIN original
          /\ \E n \in DOMAIN original.attrib : "attrib_" \o n = columnId
       THEN original.attrib[CHOOSE n \in DOMAIN original.attrib : "attrib_" \o n = columnId]
       ELSE Undefined

\* getCellValue(original, columnId) === true: the cell is the boolean true, whatever
\* the type of the value it holds (the string "TRUE" prints with its quotes)
CellIsTrue(original, columnId) == ToString(getCellValue(original, columnId)) = "TRUE"

\* a || b for strings
OrElse(original, f, g) ==
  IF f \in DOMAIN original /\ original[f] # "" THEN original[f] ELSE original[g]

nameSort(rowA, rowB) == localeCompare(OrElse(rowA, "label", "name"), OrElse(rowB, "label", "name"))

pathSort(rowA, rowB) == localeCompare(OrElse(rowA, "path", "name"), OrElse(rowB, "path", "name"))

\* attrib.enum.findIndex((o) => o.value === value), counted from 0, -1 when not found
findIndex(enum, value) ==
  IF \E i \in DOMAIN enum : enum[i].value = value
  THEN (CHOOSE i \in DOMAIN enum : enum[i].value = value /\ \A j \in 1..(i - 1) : enum[j].value # value) - 1
  ELSE -1

\* a plausible slip: the wrapped comparator is asked first
withLoadingStateSortAfter(wrapped, rowA, rowB) ==
  IF wrapped # 0 THEN wrapped
  ELSE IF \/ ("isLoading" \in DOMAIN rowA) # ("isLoading" \in DOMAIN rowB)
          \/ ("isLoading" \in DOMAIN rowA /\ rowA.isLoading # rowB.isLoading)
       THEN (IF Get(rowA, "isLoading", FALSE) THEN 1 ELSE -1)
       ELSE wrapped

\* withLoadingStateSort(sortFn)(rowA, rowB), wrapped the value of sortFn(rowA, rowB);
\* isLoading is true, false or missing
withLoadingStateSort(wrapped, rowA, rowB) ==
  IF \/ ("isLoading" \in DOMAIN rowA) # ("isLoading" \in DOMAIN rowB)
     \/ ("isLoading" \in DOMAIN rowA /\ rowA.isLoading # rowB.isLoading)
  THEN (IF Get(rowA, "isLoading", FALSE) THEN 1 ELSE -1)
  ELSE wrapped

\* a plausible slip: the datetime branch is missing
attribSortNoDatetime(rowA, rowB, columnId, attrib) ==
  LET valueA == getCellValue(rowA, columnId)
      valueB == getCellValue(rowB, columnId)
  IN IF "enum" \in DOMAIN attrib
     THEN (IF findIndex(attrib.enum, valueA) - findIndex(attrib.enum, valueB) < 0 THEN 1 ELSE -1)
     ELSE IF Get(attrib, "type", Undefined) = "boolean"
     THEN (IF CellIsTrue(rowA, columnId) THEN 1 ELSE 0)
          - (IF CellIsTrue(rowB, columnId) THEN 1 ELSE 0)
     ELSE sortingFnsAlphanumeric(valueA, valueB)

\* the cells of a boolean column hold true, false or nothing; those of the other
\* columns hold a string or nothing
attribSort(rowA, rowB, columnId, attrib) ==
  LET valueA == getCellValue(rowA, columnId)
      valueB == getCellValue(rowB, columnId)
  IN IF "enum" \in DOMAIN attrib
     THEN (IF findIndex(attrib.enum, valueA) - findIndex(attrib.enum, valueB) < 0 THEN 1 ELSE -1)
     ELSE IF Get(attrib, "type", Undefined) = "datetime"
     THEN sortingFnsDatetime(valueA, valueB)
     ELSE IF Get(attrib, "type", Undefined) = "boolean"
     THEN (IF CellIsTrue(rowA, columnId) THEN 1 ELSE 0)
          - (IF CellIsTrue(rowB, columnId) THEN 1 ELSE 0)
     ELSE sortingFnsAlphanumeric(valueA, valueB)

\* the comparator fn applied to two rows: a named strategy, or a comparator of the
\* caller that answers fn.value whatever the rows
SortFn(fn, rowA, rowB, columnId) ==
  IF fn.name = "nameSort" THEN nameSort(rowA, rowB)
  ELSE IF fn.name = "pathSort" THEN pathSort(rowA, rowB)
  ELSE IF fn.name = "attribSort" THEN attribSort(rowA, rowB, columnId, fn.attrib)
  ELSE fn.value

\* column.sortingFn(rowA, rowB, columnId)
CallSortingFn(sortingFn, rowA, rowB, columnId) ==
  IF "decorator" \in DOMAIN sortingFn
  THEN withLoadingStateSort(SortFn(sortingFn.fn, rowA, rowB, columnId), rowA, rowB)
  ELSE SortFn(sortingFn, rowA, rowB, columnId)

\* the comparator the table sorts with: sortingFn, negated for a descending sort
SortComparator(sortingFn, columnId, desc, rows) ==
  [a \in Range(rows), b \in Range(rows) |->
     IF desc THEN 0 - CallSortingFn(sortingFn, a, b, columnId)
     ELSE CallSortingFn(sortingFn, a, b, columnId)]

\* rows with a name and possibly a label, a path and an isLoading flag
LabelRows ==
  LET names == {[name |-> n] : n \in {"a", "b"}}
      labels == names \cup {SpreadWith(r, "label", l) : r \in names, l \in {"", "b"}}
      paths == labels \cup {SpreadWith(r, "path", "a") : r \in labels}
  IN paths \cup {SpreadWith(r, "isLoading", l) : r \in paths, l \in BOOLEAN}

\* a row with the same value v as status and as attrib.priority
ValueRow(v) == [name |-> "a", status |-> v, attrib |-> [priority |-> v]]

ValueRows ==
  LET values == {ValueRow(v) : v \in {"A", "B", "Z"}}
  IN values \cup {SpreadWith(r, "isLoading", l) : r \in values, l \in BOOLEAN}

\* rows with a date (a string) or a flag done (a boolean), the flag among the
\* attributes or a field of the row itself
AttribRows ==
  {[name |-> "a", attrib |-> [date |-> v]] : v \in {"9", "10"}}
  \cup {[name |-> "a", attrib |-> [done |-> v]] : v \in BOOLEAN}
  \cup {[name |-> "a", done |-> TRUE], [name |-> "a", done |-> TRUE, attrib |-> [priority |-> "A"]]}

\* loaded rows with pairwise distinct values, for the lists to sort
SortableRows == {SpreadWith(ValueRow(v), "isLoading", FALSE) : v \in {"A", "B", "C"}}

\* the comparators handed to withLoadingStateSort: those of the columns and three of
\* a caller
WrappedFns ==
  {[name |-> "nameSort"], [name |-> "pathSort"],
   [name |-> "attribSort", attrib |-> [enum |-> StatusOptions, type |-> "string"]]}
  \cup {[name |-> "given", value |-> v] : v \in {-1, 0, 1}}

SortingFns == WrappedFns \cup {withLoadingStateSortOf(fn) : fn \in WrappedFns}

SortColumnIds == {"status", "attrib_priority"}

\* attribSort for the descriptor data of an attribute without enum options
AttribSortOf(type) == [name |-> "attribSort", attrib |-> [type |-> type]]

\* the comparators of the attribute columns date (as datetime and as string) and done
AttribSortingFns ==
  LET fns == {[sortingFn |-> AttribSortOf("datetime"), columnId |-> "attrib_date"],
              [sortingFn |-> AttribSortOf("string"), columnId |-> "attrib_date"],
              [sortingFn |-> AttribSortOf("boolean"), columnId |-> "attrib_done"],
              [sortingFn |-> AttribSortOf("boolean"), columnId |-> "done"]}
  IN fns \cup {[sortingFn |-> withLoadingStateSortOf(f.sortingFn), columnId |-> f.columnId] :
                 f \in fns}

EnumSortingFn ==
  withLoadingStateSortOf([name |-> "attribSort",
                          attrib |-> [enum |-> StatusOptions, type |-> "string"]])

InitSort ==
  /\ StoreIdle
  /\ out = [pc |-> "start"]
  /\ \/ \E f \in SortingFns, c \in SortColumnIds, a, b \in LabelRows \cup ValueRows :
          inp = [sortingFn |-> f, columnId |-> c, rows |-> <<a, b>>]
     \/ \E f \in AttribSortingFns, a, b \in AttribRows \cup ValueRows :
          inp = [sortingFn |-> f.sortingFn, columnId |-> f.columnId, rows |-> <<a, b>>]
     \/ \E c \in SortColumnIds, rows \in SeqsUpTo(SortableRows, MaxSortRows), d \in BOOLEAN :
          inp = [sortingFn |-> EnumSortingFn, columnId |-> c, rows |-> rows, desc |-> d]

\* the column's sortingFn called on two rows, in both argument orders
CompareRows ==
  /\ out.pc = "start"
  /\ "desc" \notin DOMAIN inp
  /\ out' = [pc |-> "compared",
             result |-> CallSortingFn(inp.sortingFn, inp.rows[1], inp.rows[2], inp.columnId),
             reversed |-> CallSortingFn(inp.sortingFn, inp.rows[2], inp.rows[1], inp.columnId)]
  /\ UNCHANGED <<storeVars, inp>>

\* the table sorts the rows by the column, ascending or descending
SortRows ==
  /\ out.pc = "start"
  /\ "desc" \in DOMAIN inp
  /\ out' = [pc |-> "sorted",
             rows |-> StableSort(inp.rows,
                                 SortComparator(inp.sortingFn, inp.columnId, inp.desc, inp.rows))]
  /\ UNCHANGED <<storeVars, inp>>

NextSort ==
  \/ CompareRows
  \/ SortRows

SpecSort == InitSort /\ [][NextSort]_vars

\* ---------------------------------------------------------------- useColumnSettingsContext (SpecContext)
\* the layout state of the value a ColumnSettingsProvider rendered with cfg provides
ProviderValue(cfg) ==
  [columnVisibility |-> Get(cfg, "columnVisibility", <<>>),
   columnPinning |-> Reconcile(cfg).pinning,
   columnOrder |-> Reconcile(cfg).order,
   columnSizing |-> Get(cfg, "columnSizing", <<>>)]

\* useContext(ColumnSettingsContext): <<>> for undefined (no provider above the
\* consumer), <<value>> for the value of the nearest provider
Contexts == {<<>>} \cup {<<ProviderValue(cfg)>> : cfg \in CallConfigs}

\* a plausible slip: an empty layout state instead of the error
useColumnSettingsContextDefault(context) ==
  IF context = <<>>
  THEN [pc |-> "returned", value |-> ProviderValue(<<>>)]
  ELSE [pc |-> "returned", value |-> context[1]]

\* lines 679-685: throw when there is no context, return it otherwise
useColumnSettingsContext(context) ==
  IF context = <<>>
  THEN [pc |-> "thrown",
        error |-> "useColumnSettingsContext must be used within a ColumnSettingsProvider"]
  ELSE [pc |-> "returned", value |-> context[1]]

InitContext ==
  \E context \in Contexts :
    /\ StoreIdle
    /\ inp = [context |-> context]
    /\ out = [pc |-> "start"]

\* a consumer calls the hook
UseColumnSettingsContext ==
  /\ out.pc = "start"
  /\ out' = useColumnSettingsContext(inp.context)
  /\ UNCHANGED <<storeVars, inp>>

NextContext == UseColumnSettingsContext

SpecContext == InitContext /\ [][NextContext]_vars

\* ---------------------------------------------------------------- the remote module hook (SpecLoad)
MaxRenders == 2   \* renders with changed props or a changed context after the first

\* the fallback prop, the initial value of the ref loadedRemote
Fallback == "fallback"

\* the versions of SpecLoad in semver precedence: a prerelease precedes its release
SemverOrder == <<"1.0.0-dev", "1.0.0", "2.0.0-dev", "2.0.0">>

\* semver.gte(v, w) for valid versions
semverGte(v, w) == IndexOf(SemverOrder, v) >= IndexOf(SemverOrder, w)

\* modules.find((m) => m.addonName === addon): <<m>> for the first match, <<>> for none
FindAddon(modules, addon) ==
  IF \E i \in DOMAIN modules : modules[i].addonName = addon
  THEN <<modules[CHOOSE i \in DOMAIN modules :
                   modules[i].addonName = addon
                   /\ \A j \in 1..(i - 1) : modules[j].addonName # addon]>>
  ELSE <<>>

\* the version check of the effect: a minVersion is given, the addon's version is below
\* it and is not its -dev build
VersionOutdated(addonVersion, minVersion) ==
  /\ minVersion # ""
  /\ ~semverGte(addonVersion, minVersion)
  /\ minVersion \o "-dev" # addonVersion

\* remotes are initialized and addon, remote and module are non-empty
Ready(p) == p.remotesInitialized /\ p.addon # "" /\ p.remote # "" /\ p.module # ""

\* a plausible slip: the branch for a missing remote module returns without
\* setIsLoading(false)
useLoadModuleEffectKeepLoading(p, st) ==
  LET initializedRemote == FindAddon(p.modules, p.addon)
  IN IF ~Ready(p) THEN st
     ELSE IF Len(initializedRemote) = 0 THEN [st EXCEPT !.isLoading = FALSE]
     ELSE IF VersionOutdated(initializedRemote[1].addonVersion, p.minVersion)
     THEN [st EXCEPT !.isOutdated = TRUE, !.isLoading = FALSE]
     ELSE IF p.remote \notin initializedRemote[1].modules
     THEN [st EXCEPT !.isOutdated = FALSE]
     ELSE IF st.isLoaded THEN [st EXCEPT !.isOutdated = FALSE, !.isLoading = FALSE]
     ELSE [st EXCEPT !.isOutdated = FALSE,
                     !.loads = Append(@, p.remote \o "/" \o p.module)]

\* the body of the effect: the hook's state after it, loads being the calls of
\* loadRemote that have not settled; p holds the props and the context value of the
\* render, whose field modules of an addon is the set of its remote names
useLoadModuleEffect(p, st) ==
  LET initializedRemote == FindAddon(p.modules, p.addon)
  IN IF ~Ready(p) THEN st
     ELSE IF Len(initializedRemote) = 0 THEN [st EXCEPT !.isLoading = FALSE]
     ELSE IF VersionOutdated(initializedRemote[1].addonVersion, p.minVersion)
     THEN [st EXCEPT !.isOutdated = TRUE, !.isLoading = FALSE]
     ELSE IF p.remote \notin initializedRemote[1].modules
     THEN [st EXCEPT !.isOutdated = FALSE, !.isLoading = FALSE]
     ELSE IF st.isLoaded THEN [st EXCEPT !.isOutdated = FALSE, !.isLoading = FALSE]
     ELSE [st EXCEPT !.isOutdated = FALSE,
                     !.loads = Append(@, p.remote \o "/" \o p.module)]

\* what the hook returns in a render: the ref's module and the flags, outdated being
\* <<>> for undefined
useLoadModule(p, st) ==
  LET found == FindAddon(p.modules, p.addon)
  IN [module |-> st.loadedRemote,
      isLoaded |-> st.isLoaded,
      isLoading |-> st.isLoading,
      outdated |-> IF st.isOutdated
                   THEN <<[current |-> IF Len(found) = 0 THEN "unknown"
                                       ELSE found[1].addonVersion,
                           required |-> IF p.minVersion = "" THEN "unknown" ELSE p.minVersion]>>
                   ELSE <<>>]

\* the props of the hook; minVersion "" stands for none
LoadProps ==
  {[addon |-> "core", remote |-> "r", module |-> "m", minVersion |-> v] :
     v \in {"", "1.0.0", "2.0.0"}}
  \cup {[addon |-> "core", remote |-> "r", module |-> "n", minVersion |-> ""],
        [addon |-> "other", remote |-> "r", module |-> "m", minVersion |-> ""],
        [addon |-> "", remote |-> "r", module |-> "m", minVersion |-> ""],
        [addon |-> "core", remote |-> "", module |-> "m", minVersion |-> ""],
        [addon |-> "core", remote |-> "r", module |-> "", minVersion |-> ""]}

\* the values of useRemoteModules(): nothing before the remotes are initialized, then
\* the addon list
LoadContexts ==
  {[remotesInitialized |-> FALSE, modules |-> <<>>],
   [remotesInitialized |-> TRUE, modules |-> <<>>],
   [remotesInitialized |-> TRUE,
    modules |-> <<[addonName |-> "core", addonVersion |-> "2.0.0", modules |-> {}]>>]}
  \cup {[remotesInitialized |-> TRUE,
         modules |-> <<[addonName |-> "core", addonVersion |-> v, modules |-> {"r"}]>>] :
          v \in Range(SemverOrder)}

\* the props and the context value of a render as one record
RenderOf(props, context) ==
  [addon |-> props.addon, remote |-> props.remote, module |-> props.module,
   minVersion |-> props.minVersion,
   remotesInitialized |-> context.remotesInitialized, modules |-> context.modules]

\* the first render: the initial state values, the effect of the mount to run
InitLoad ==
  \E props \in LoadProps, context \in LoadContexts :
    /\ StoreIdle
    /\ inp = RenderOf(props, context)
    /\ out = [isLoading |-> TRUE, isLoaded |-> FALSE, isOutdated |-> FALSE,
              loadedRemote |-> Fallback, loads |-> <<>>, effectDue |-> TRUE,
              renders |-> 0, resolved |-> FALSE]

\* the effect runs after a render in which one of its dependencies changed
Effect ==
  /\ out.effectDue
  /\ out' = [useLoadModuleEffect(inp, out) EXCEPT !.effectDue = FALSE]
  /\ UNCHANGED <<storeVars, inp>>

\* the parent renders the hook with other props; the effect is due when a dependency
\* differs
PropsChange(props) ==
  /\ ~out.effectDue
  /\ RenderOf(props, inp) # inp
  /\ inp' = RenderOf(props, inp)
  /\ out' = [out EXCEPT !.effectDue = TRUE, !.renders = @ + 1]
  /\ UNCHANGED storeVars

\* the remote modules context hands out a new value (a new modules array each time)
ContextChange(context) ==
  /\ ~out.effectDue
  /\ inp' = RenderOf(inp, context)
  /\ out' = [out EXCEPT !.effectDue = TRUE, !.renders = @ + 1]
  /\ UNCHANGED storeVars

\* one render in which the props and the context value both differ from the last ones
PropsAndContextChange(props, context) ==
  /\ ~out.effectDue
  /\ RenderOf(props, inp) # inp
  /\ inp' = RenderOf(props, context)
  /\ out' = [out EXCEPT !.effectDue = TRUE, !.renders = @ + 1]
  /\ UNCHANGED storeVars

\* the pending calls without the i-th, which has settled
Settled(loads, i) == SubSeq(loads, 1, i - 1) \o SubSeq(loads, i + 1, Len(loads))

\* the promise of the i-th pending loadRemote call resolves, with the module or with
\* null; the effect is due when isLoaded changes
LoadResolved(i, hasModule) ==
  /\ ~out.effectDue
  /\ i \in DOMAIN out.loads
  /\ out' = [out EXCEPT !.isLoaded = TRUE,
                        !.isLoading = FALSE,
                        !.loadedRemote = IF hasModule THEN out.loads[i] ELSE @,
                        !.loads = Settled(@, i),
                        !.effectDue = ~out.isLoaded,
                        !.resolved = TRUE]
  /\ UNCHANGED <<storeVars, inp>>

\* the promise of the i-th pending loadRemote call rejects
LoadRejected(i) ==
  /\ ~out.effectDue
  /\ i \in DOMAIN out.loads
  /\ out' = [out EXCEPT !.isLoading = FALSE, !.loads = Settled(@, i)]
  /\ UNCHANGED <<storeVars, inp>>

\* a behaviour of SpecLoad has at most MaxRenders renders after the first
RenderBounded == out.renders < MaxRenders

NextLoad ==
  \/ Effect
  \/ \E props \in LoadProps : RenderBounded /\ PropsChange(props)
  \/ \E context \in LoadContexts : RenderBounded /\ ContextChange(context)
  \/ \E props \in LoadProps, context \in LoadContexts :
       RenderBounded /\ PropsAndContextChange(props, context)
  \/ \E i \in 1..(MaxRenders + 2), hasModule \in BOOLEAN : LoadResolved(i, hasModule)
  \/ \E i \in 1..(MaxRenders + 2) : LoadRejected(i)

SpecLoad == InitLoad /\ [][NextLoad]_vars

\* effects are flushed after each render; a loadRemote promise may never settle
SpecLoadLive ==
  /\ InitLoad
  /\ [][NextLoad]_vars
  /\ WF_out(Effect)

\* ================================================================ properties
\* s read left to right is a subsequence of t
RECURSIVE IsSubseq(_, _)
IsSubseq(s, t) ==
  IF s = <<>> THEN TRUE
  ELSE IF t = <<>> THEN FALSE
  ELSE IF Head(s) = Head(t) THEN IsSubseq(Tail(s), Tail(t))
  ELSE IsSubseq(s, Tail(t))

\* id is hidden by the visibility mapping
Hidden(visibility, id) == id \in DOMAIN visibility /\ visibility[id] = FALSE

\* no id of cfg's pinning.left is hidden by cfg's columnVisibility
PinnedAreVisible(cfg) ==
  \A id \in Range(LeftOf(Get(cfg, "columnPinning", <<>>))) :
    ~Hidden(Get(cfg, "columnVisibility", <<>>), id)

\* C1 as stated: in every configuration the store exposes, after reconciliation and
\* after any public mutation, no id of pinning.left has visibility false
C1_PinnedVisibleAlways ==
  \A id \in Range(LeftOf(columnPinning)) : ~Hidden(columnVisibility, id)

\* C1 amended: the configuration updateColumnVisibility and columnVisibilityUpdater
\* hand to onChange has no id in pinning.left whose visibility is false
C1_EmittedPinnedVisible ==
  op \in {"updateColumnVisibility", "columnVisibilityUpdater"} =>
    Len(calls) = 1 /\ PinnedAreVisible(calls[1])

\* a visibility update that hides name while thumbnail stays pinned
C1_Witness ==
  /\ op = "updateColumnVisibility"
  /\ Hidden(arg, "name")
  /\ LeftOf(calls[1].columnPinning) = <<"thumbnail">>

\* C2 as stated: in every configuration the store exposes, pinning.left is a
\* subsequence of order
C2_PinOrderAlways == IsSubseq(LeftOf(columnPinning), columnOrder)

\* C2 amended: in the configuration updateColumnOrder and columnOrderUpdater hand to
\* onChange, pinning.left is a subsequence of columnOrder
C2_EmittedPinOrder ==
  op \in {"updateColumnOrder", "columnOrderUpdater"} =>
    Len(calls) = 1 /\ IsSubseq(LeftOf(calls[1].columnPinning), calls[1].columnOrder)

\* an order update that emitted two pinned columns in the new column order
C2_Witness ==
  /\ op = "updateColumnOrder"
  /\ arg = <<"name", "thumbnail">>
  /\ LeftOf(calls[1].columnPinning) = <<"name", "thumbnail">>

\* C3: the column order the store exposes contains each of the five canonical ids,
\* whatever the persisted order is (empty and missing included)
C3_DefaultsInOrder == \A col \in Range(defaultOrder) : Includes(columnOrder, col)

\* a persisted order holding only name, exposed with the four other defaults around it
C3_Witness ==
  /\ Get(config, "columnOrder", <<>>) = <<"name">>
  /\ columnOrder = <<"thumbnail", "name", "subType", "status", "tags">>

\* a persisted configuration without columnOrder
C3_WitnessMissing ==
  /\ "columnOrder" \notin DOMAIN config
  /\ columnOrder = defaultOrder

\* a setColumnSizing or columnSizingUpdater call is handled in this step
SizingCalled == op' \in {"setColumnSizing", "columnSizingUpdater"}

\* C4 as stated: no sizing commit is made while the quiet period since the last call of
\* a burst runs, and when it is over the burst is committed exactly once, with the
\* argument of its last call: a call that comes a quiet period or more after the
\* previous one finds the previous burst committed
C4_CommitAtQuietPeriodEnd ==
  /\ [](lastSizing # <<>> /\ elapsed < ResizeDelay => commits = 0)
  /\ [](op = "sizingCommit" => commits = 1 /\ calls[1].columnSizing = lastSizing[1])
  /\ [][lastSizing # <<>> /\ elapsed >= ResizeDelay /\ SizingCalled => commits = 1]_vars

\* C4 amended: no sizing commit is made while the quiet period since the last call
\* runs; the timeout callback of the last call, once it has run, has made exactly one
\* commit, handing onChange a single configuration whose columnSizing is the argument
\* of the last call (a call handled while the callback is due cancels it instead)
C4_Coalesced ==
  /\ (lastSizing # <<>> /\ elapsed < ResizeDelay => commits = 0)
  /\ (op = "sizingCommit" =>
        /\ elapsed >= ResizeDelay
        /\ commits = 1
        /\ Len(calls) = 1
        /\ calls[1].columnSizing = lastSizing[1])
  /\ (lastSizing # <<>> /\ elapsed >= ResizeDelay /\ ~TimerDue => commits = 1)

\* the commit of a burst of two calls, the last one with {a: 100}
C4_Witness ==
  /\ op = "sizingCommit"
  /\ burst = 2
  /\ commits = 1
  /\ calls[1].columnSizing = [a |-> 100]

\* a sizing commit is pending: setColumnSizing was called and its burst is not committed
Pending == lastSizing # <<>> /\ commits = 0

\* C5: in every state the columnSizing the store exposes is the in-flight value (the
\* argument of the latest setColumnSizing call) while a commit is pending, the durable
\* configuration's columnSizing otherwise; the commit clears the overlay
C5_EffectiveSizing ==
  /\ (Pending => columnSizing = lastSizing[1])
  /\ (~Pending => columnSizing = Get(config, "columnSizing", <<>>))
  /\ (op = "sizingCommit" => internal = <<>>)

\* number of occurrences of x in s
Count(s, x) == Cardinality({i \in DOMAIN s : s[i] = x})

\* s and t hold the same ids the same number of times
IsPermutation(s, t) ==
  /\ Len(s) = Len(t)
  /\ \A x \in Range(s) \cup Range(t) : Count(s, x) = Count(t, x)

\* C6: updateColumnVisibility(v) makes one onChange call, with columnVisibility v and
\* with pinning.left the exposed pinning.left without the ids v maps to false, the
\* others in their relative order
C6_UpdateVisibility ==
  [][op' = "updateColumnVisibility" =>
       LET v == arg'
           emitted == calls'
       IN /\ Len(emitted) = 1
          /\ emitted[1].columnVisibility = v
          /\ LeftOf(emitted[1].columnPinning)
               = SelectSeq(LeftOf(columnPinning), LAMBDA id : ~Hidden(v, id))]_vars

\* pinning.left [a, b] and v = {a: false} gave [b]
C6_Witness ==
  /\ op = "updateColumnVisibility"
  /\ arg = [a |-> FALSE]
  /\ calls[1].columnPinning = [left |-> <<"b">>]

\* C7: updateColumnOrder(newOrder) makes one onChange call, with columnOrder newOrder
\* and with pinning.left the subsequence of newOrder made of the ids that are
\* left-pinned in the exposed pinning
C7_UpdateOrder ==
  [][op' = "updateColumnOrder" =>
       LET newOrder == arg'
           emitted == calls'
           pinned == Range(LeftOf(columnPinning))
       IN /\ Len(emitted) = 1
          /\ emitted[1].columnOrder = newOrder
          /\ LeftOf(emitted[1].columnPinning)
               = SelectSeq(newOrder, LAMBDA id : id \in pinned)]_vars

\* updateOrder([d, c, b, a]) with b and d pinned gave pinning.left [d, b]
C7_Witness ==
  /\ op = "updateColumnOrder"
  /\ arg = <<"d", "c", "b", "a">>
  /\ calls[1].columnPinning = [left |-> <<"d", "b">>]

\* C8: updateColumnPinning(p) emits p unchanged and an order that is a stable
\* partition of the exposed order: the ids of p.left first, then the others, both in
\* the relative order they have in the exposed order
C8_UpdatePinning ==
  [][op' = "updateColumnPinning" =>
       LET p == arg'
           emitted == calls'
           pinned == Range(LeftOf(p))
       IN /\ Len(emitted) = 1
          /\ emitted[1].columnPinning = p
          /\ emitted[1].columnOrder
               = SelectSeq(columnOrder, LAMBDA id : id \in pinned)
                   \o SelectSeq(columnOrder, LAMBDA id : id \notin pinned)]_vars

\* p.left = [b, a]: a and b come first in the order they had in the exposed order
C8_Witness ==
  /\ op = "updateColumnPinning"
  /\ arg = [left |-> <<"b", "a">>]
  /\ calls[1].columnOrder = <<"a", "b", "thumbnail", "name", "subType", "status", "tags">>

\* C9 as stated: the order updateColumnPinning emits is a permutation of the order of
\* the configuration the store was given; from order [a,b,c,d],
\* updateColumnPinning({left: [c]}) emits exactly [c,a,b,d]
C9_PermutationOfGiven ==
  [][op' = "updateColumnPinning" =>
       LET emitted == calls'
           givenOrder == Get(config, "columnOrder", <<>>)
       IN /\ IsPermutation(emitted[1].columnOrder, givenOrder)
          /\ (givenOrder = <<"a", "b", "c", "d">> /\ arg' = [left |-> <<"c">>]
                => emitted[1].columnOrder = <<"c", "a", "b", "d">>)]_vars

\* C9 amended: the order updateColumnPinning emits is a permutation of the exposed
\* (reconciled) order, the given order with the missing canonical ids inserted; from
\* order [a,b,c,d], updateColumnPinning({left: [c]}) emits
\* [c,thumbnail,name,subType,status,tags,a,b,d]
C9_PermutationOfReconciled ==
  [][op' = "updateColumnPinning" =>
       LET emitted == calls'
           givenOrder == Get(config, "columnOrder", <<>>)
       IN /\ IsPermutation(emitted[1].columnOrder, columnOrder)
          /\ \A id \in Range(emitted[1].columnOrder) :
               id \in Range(givenOrder) \cup Range(defaultOrder)
          /\ (givenOrder = <<"a", "b", "c", "d">> /\ arg' = [left |-> <<"c">>]
                => emitted[1].columnOrder
                     = <<"c", "thumbnail", "name", "subType", "status", "tags",
                         "a", "b", "d">>)]_vars

\* updateColumnPinning({left: [c]}) emitted c before the five defaults and a, b, d
C9_Witness ==
  /\ op = "updateColumnPinning"
  /\ arg = [left |-> <<"c">>]
  /\ calls[1].columnOrder
       = <<"c", "thumbnail", "name", "subType", "status", "tags", "a", "b", "d">>

\* the field a direct setter targets
Target(name) ==
  CASE name = "setColumnVisibility" -> "columnVisibility"
    [] name = "setColumnOrder" -> "columnOrder"
    [] name = "setColumnPinning" -> "columnPinning"

\* C10: a direct setter makes one onChange call with the configuration the store was
\* given (persisted order and pinning, not the reconciled ones) in which only the
\* targeted field is replaced, by the argument
C10_DirectSetters ==
  [][op' \in {"setColumnVisibility", "setColumnOrder", "setColumnPinning"} =>
       LET emitted == calls'
           f == Target(op')
       IN /\ Len(emitted) = 1
          /\ DOMAIN emitted[1] = DOMAIN config \cup {f}
          /\ emitted[1][f] = arg'
          /\ \A k \in DOMAIN config \ {f} : emitted[1][k] = config[k]]_vars

\* setColumnVisibility kept the persisted order [a] and pinning [name], which the next
\* render reconciles to a different order and pinning
C10_Witness ==
  /\ op = "setColumnVisibility"
  /\ Len(calls) = 1
  /\ Get(calls[1], "columnOrder", <<>>) = <<"a">>
  /\ Get(calls[1], "columnPinning", <<>>) = [left |-> <<"name">>]
  /\ columnPinning = [left |-> <<"thumbnail", "name">>]

\* the operations that build the configuration they hand to onChange from columnsConfig
BuildingOps ==
  {"setColumnVisibility", "setColumnOrder", "setColumnPinning",
   "updateColumnVisibility", "updateColumnOrder", "updateColumnPinning",
   "columnVisibilityUpdater", "columnOrderUpdater", "columnPinningUpdater",
   "sizingCommit"}

\* C11: every configuration a direct setter, a reconciling updater or a sizing commit
\* hands to onChange carries the four fields, also when the given configuration is
\* partial
C11_EmittedComplete ==
  op \in BuildingOps => \A i \in DOMAIN calls : DOMAIN calls[i] = Fields

\* s without its q-th element
Remove(s, q) == SubSeq(s, 1, q - 1) \o SubSeq(s, q + 1, Len(s))

\* the first position of x in s, for x in s
FirstIndex(s, x) ==
  CHOOSE k \in DOMAIN s : s[k] = x /\ \A j \in DOMAIN s : s[j] = x => k <= j

\* new is order with col inserted at position q
InsertedAt(new, order, col, q) ==
  /\ Len(new) = Len(order) + 1
  /\ new[q] = col
  /\ Remove(new, q) = order

\* C12: an iteration of the reconciliation leaves the order alone when its canonical id
\* is in it; otherwise it inserts the id at the front when the id has no canonical
\* predecessor or the predecessor is not in the order, and right after the
\* predecessor's first position otherwise; when the five iterations are done the ids of
\* the persisted order are all there, in their sequence, and each inserted id is there
\* once
C12_Placement ==
  [][out'.i = out.i + 1 =>
       LET col == defaultOrder[out.i]
           order == out.order
           new == out'.order
           given == Get(inp, "columnOrder", <<>>)
       IN /\ (col \in Range(order) => new = order)
          /\ (col \notin Range(order) =>
                IF out.i = 1 \/ defaultOrder[out.i - 1] \notin Range(order)
                THEN InsertedAt(new, order, col, 1)
                ELSE InsertedAt(new, order, col,
                                FirstIndex(order, defaultOrder[out.i - 1]) + 1))
          /\ (out'.i > Len(defaultOrder) =>
                /\ SelectSeq(new, LAMBDA id : id \in Range(given)) = given
                /\ \A id \in Range(defaultOrder) \ Range(given) : Count(new, id) = 1
                /\ Range(new) = Range(given) \cup Range(defaultOrder))]_vars

\* the order [custom1] reconciled: the five defaults, then custom1
C12_Witness ==
  /\ out # <<>>
  /\ out.i > Len(defaultOrder)
  /\ Get(inp, "columnOrder", <<>>) = <<"custom1">>
  /\ out.order = <<"thumbnail", "name", "subType", "status", "tags", "custom1">>

\* name inserted right after a thumbnail that is not at the front
C12_WitnessAfter ==
  /\ out # <<>>
  /\ out.i = 3
  /\ Get(inp, "columnOrder", <<>>) = <<"custom1", "thumbnail", "tags">>
  /\ out.order = <<"custom1", "thumbnail", "name", "tags">>

\* C13 as stated: an iteration prepends its canonical id to pinning.left exactly when
\* the id was missing from the order and its canonical successor is in the order and
\* left-pinned; otherwise the pinning is unchanged
C13_PinWhenSuccessorInOrder ==
  [][out'.i = out.i + 1 =>
       LET col == defaultOrder[out.i]
           pins == LeftOf(out.pinning)
       IN IF /\ col \notin Range(out.order)
             /\ out.i < Len(defaultOrder)
             /\ defaultOrder[out.i + 1] \in Range(out.order)
             /\ defaultOrder[out.i + 1] \in Range(pins)
          THEN out'.pinning = SpreadWith(out.pinning, "left", <<col>> \o pins)
          ELSE out'.pinning = out.pinning]_vars

\* C13 amended: an iteration prepends its canonical id to pinning.left exactly when the
\* id was missing from the order and its canonical successor is left-pinned, whether
\* or not the successor is in the order; otherwise the pinning is unchanged
C13_PinWhenSuccessorPinned ==
  [][out'.i = out.i + 1 =>
       LET col == defaultOrder[out.i]
           pins == LeftOf(out.pinning)
       IN IF /\ col \notin Range(out.order)
             /\ out.i < Len(defaultOrder)
             /\ defaultOrder[out.i + 1] \in Range(pins)
          THEN out'.pinning = SpreadWith(out.pinning, "left", <<col>> \o pins)
          ELSE out'.pinning = out.pinning]_vars

\* thumbnail pinned in front of a pinned name that is not in the order
C13_Witness ==
  /\ out # <<>>
  /\ out.i = 2
  /\ Get(inp, "columnOrder", <<>>) = <<>>
  /\ Get(inp, "columnPinning", <<>>) = [left |-> <<"name">>]
  /\ out.pinning = [left |-> <<"thumbnail", "name">>]

\* the ids of a list of columns
Ids(cols) == [i \in DOMAIN cols |-> cols[i].id]

\* buildTreeTableColumns has returned
Returned == out # <<>> /\ "pc" \in DOMAIN out /\ out.pc = "done"

NoExtras == Get(inp, "extraColumns", <<>>) = <<>>

\* C14: without extra columns the returned ids are the built-in ids selection,
\* thumbnail, name, status, subType, assignees, tags that are not excluded, in that
\* order, followed by 'attrib_' + name of the schema attributes, in schema order, whose
\* id is not excluded and that are not built-in attributes hidden by the sentinel
C14_IdList ==
  (Returned /\ NoExtras) =>
    LET ex == Get(inp, "excluded", {})
        builtIns == SelectSeq(<<"selection", "thumbnail", "name", "status", "subType",
                                "assignees", "tags">>, LAMBDA id : id \notin ex)
        shown == SelectSeq(inp.attribs,
                           LAMBDA a : /\ ("attrib_" \o a.name) \notin ex
                                      /\ ~(a.builtin /\ "attrib" \in ex))
    IN Ids(out.allColumns) = builtIns \o [i \in 1..Len(shown) |-> "attrib_" \o shown[i].name]

\* name and the built-in attributes excluded: status before subType, then attrib_fps
C14_Witness ==
  /\ Returned /\ NoExtras
  /\ Get(inp, "excluded", {}) = {"name", "attrib"}
  /\ inp.attribs = <<AttribOf("priority", TRUE), AttribOf("fps", FALSE)>>
  /\ Ids(out.allColumns) =
       <<"selection", "thumbnail", "status", "subType", "assignees", "tags", "attrib_fps">>

\* no id twice in s
DuplicateFree(s) == \A i, j \in DOMAIN s : s[i] = s[j] => i = j

\* C15 as stated: the ids of a returned list are unique, for every schema, exclusion
\* set and list of extra columns
C15_UniqueIds ==
  Returned => DuplicateFree(Ids(out.allColumns))

\* the column ids the schema, the built-in columns and the extra columns bring along
InputIds ==
  DefaultColumns \o [i \in DOMAIN inp.attribs |-> "attrib_" \o inp.attribs[i].name]
    \o [i \in DOMAIN Get(inp, "extraColumns", <<>>) |-> inp.extraColumns[i].column.id]

\* C15 amended: the ids of a returned list are unique when the attribute names of the
\* schema are distinct and the ids of the extra columns differ from one another, from
\* the built-in ids and from the attribute ids
C15_UniqueIdsOfDistinctInputs ==
  (Returned /\ DuplicateFree(InputIds)) => DuplicateFree(Ids(out.allColumns))

\* two distinct extra columns and an attribute, all in a returned list
C15_Witness ==
  /\ Returned
  /\ DuplicateFree(InputIds)
  /\ Len(Get(inp, "extraColumns", <<>>)) = 2
  /\ Len(inp.attribs) = 1
  /\ Len(out.allColumns) = 10

\* the list as BuildAllColumns left it, before any extra column
Built == out # <<>> /\ "pc" \in DOMAIN out /\ out.pc = "extras" /\ out.k = 1

\* C16: when excluded holds the sentinel 'attrib', the list built from the schema has
\* no column of a built-in attribute, has a column for every attribute that is not
\* built-in and whose own id is not excluded, and its built-in columns are the ones
\* whose id is not excluded
C16_Sentinel ==
  (Built /\ "attrib" \in Get(inp, "excluded", {})) =>
    LET cols == out.allColumns
        ofAttrib == {i \in DOMAIN cols : "attrib" \in DOMAIN cols[i]}
    IN /\ \A i \in ofAttrib : ~cols[i].attrib.builtin
       /\ \A j \in DOMAIN inp.attribs :
            (~inp.attribs[j].builtin /\ ("attrib_" \o inp.attribs[j].name) \notin inp.excluded)
              => \E i \in ofAttrib : cols[i].attrib = inp.attribs[j]
       /\ \A id \in Range(DefaultColumns) :
            id \notin inp.excluded
              <=> \E i \in DOMAIN cols \ ofAttrib : cols[i].id = id

\* the sentinel hides the built-in priority and leaves the custom fps
C16_Witness ==
  /\ Built
  /\ Get(inp, "excluded", {}) = {"attrib"}
  /\ inp.attribs = <<AttribOf("priority", TRUE), AttribOf("fps", FALSE)>>
  /\ Ids(out.allColumns) = DefaultColumns \o <<"attrib_fps">>

\* C19: the k-th iteration handles the k-th extra column against the list as it stands:
\* with a position p, 0 <= p < length, the column sits at index p (counted from 0) of
\* the new list and the other columns keep their sequence; with no position, a negative
\* one or one >= length, the column becomes the last element
C19_ExtraSpliced ==
  [][(out.pc = "extras" /\ out'.pc = "extras" /\ out'.k = out.k + 1) =>
       LET extra == inp.extraColumns[out.k]
           all == out.allColumns
           new == out'.allColumns
       IN IF "position" \in DOMAIN extra /\ 0 <= extra.position
             /\ extra.position < Len(all)
          THEN InsertedAt(new, all, extra.column, extra.position + 1)
          ELSE InsertedAt(new, all, extra.column, Len(all) + 1)]_vars

\* extra1 at position 7 of a list of seven is pushed; extra2 at position 7 then lands
\* in front of it
C19_Witness ==
  /\ Returned
  /\ Get(inp, "extraColumns", <<>>) =
       <<[column |-> [id |-> "extra1"], position |-> 7],
         [column |-> [id |-> "extra2"], position |-> 7]>>
  /\ Ids(out.allColumns) = DefaultColumns \o <<"extra2", "extra1">>

\* a column at position 0 and one without position
C19_WitnessFront ==
  /\ Returned
  /\ Get(inp, "extraColumns", <<>>) =
       <<[column |-> [id |-> "extra1"]], [column |-> [id |-> "extra2"], position |-> 0]>>
  /\ Ids(out.allColumns) = <<"extra2">> \o DefaultColumns \o <<"extra1">>

\* the rows have been sorted by a column
Sorted == out # <<>> /\ "pc" \in DOMAIN out /\ out.pc = "sorted"

\* the index of a row's value in the declared options, counted from 0
OptionIndex(row) ==
  LET declared == <<"A", "B", "C">>
      v == IF inp.columnId = "status" THEN row.status ELSE row.attrib.priority
  IN IF \E i \in DOMAIN declared : declared[i] = v
     THEN (CHOOSE i \in DOMAIN declared : declared[i] = v) - 1
     ELSE -1

\* C17: rows sorted ascending by a column with declared enum options are in increasing
\* index of their value in the option list, rows sorted descending in decreasing index:
\* the values C, A, B come out as A, B, C ascending and as C, B, A descending
C17_EnumOrder ==
  Sorted =>
    \A i, j \in DOMAIN out.rows :
      i < j => IF inp.desc
               THEN OptionIndex(out.rows[i]) >= OptionIndex(out.rows[j])
               ELSE OptionIndex(out.rows[i]) <= OptionIndex(out.rows[j])

\* the comparator has been called on two rows
Compared == out # <<>> /\ "pc" \in DOMAIN out /\ out.pc = "compared"

\* the row is flagged as loading
Loading(row) == "isLoading" \in DOMAIN row /\ row.isLoading = TRUE

\* the two rows carry the same flag, or both none
SameFlag(rowA, rowB) ==
  /\ ("isLoading" \in DOMAIN rowA) = ("isLoading" \in DOMAIN rowB)
  /\ "isLoading" \in DOMAIN rowA => rowA.isLoading = rowB.isLoading

\* C18: the decorated comparator, called on a loading row and a row that is not
\* loading, answers 1 when the loading row is the first argument and -1 when it is
\* the second, whatever the wrapped comparator answers; called on two rows with the
\* same flag it answers what the wrapped comparator answers
C18_LoadingLast ==
  (Compared /\ "decorator" \in DOMAIN inp.sortingFn) =>
    LET rowA == inp.rows[1]
        rowB == inp.rows[2]
        wrapped == SortFn(inp.sortingFn.fn, rowA, rowB, inp.columnId)
    IN /\ (Loading(rowA) /\ ~Loading(rowB)) => out.result = 1
       /\ (~Loading(rowA) /\ Loading(rowB)) => out.result = -1
       /\ SameFlag(rowA, rowB) => out.result = wrapped

\* a loading row against a loaded row that the wrapped comparator would put after it
C18_Witness ==
  /\ Compared
  /\ inp.sortingFn = withLoadingStateSortOf([name |-> "nameSort"])
  /\ inp.rows = <<[name |-> "a", isLoading |-> TRUE], [name |-> "b", isLoading |-> FALSE]>>
  /\ out.result = 1

\* two loading rows: the answer of the wrapped comparator
C18_WitnessEqual ==
  /\ Compared
  /\ inp.sortingFn = withLoadingStateSortOf([name |-> "given", value |-> -1])
  /\ Loading(inp.rows[1]) /\ Loading(inp.rows[2])
  /\ out.result = -1

\* C21: useColumnSettingsContext called where no ColumnSettingsProvider provides a value
\* throws; it returns no layout state, neither a default nor an empty one
C21_ThrowsWithoutProvider ==
  (out.pc # "start" /\ inp.context = <<>>) =>
    /\ out.pc = "thrown"
    /\ "value" \notin DOMAIN out

\* the hook has thrown for a consumer without provider
C21_Witness ==
  /\ inp.context = <<>>
  /\ out.pc = "thrown"
  /\ out.error = "useColumnSettingsContext must be used within a ColumnSettingsProvider"

\* the hook has returned the value of a provider
C21_WitnessProvided ==
  /\ inp.context # <<>>
  /\ out.pc = "returned"
  /\ out.value = inp.context[1]

\* C22: at most one commit timer is pending; a sizing commit hands onChange the argument
\* of the latest setColumnSizing call, never that of an earlier one; and once time has
\* passed since the latest call with its timer pending, that call is committed unless
\* another setColumnSizing call is made first
C22_LastCallWins ==
  /\ [](Cardinality(timers) <= 1)
  /\ [][op' = "sizingCommit" =>
          /\ lastSizing # <<>>
          /\ arg' = lastSizing[1]
          /\ calls' = <<SpreadWith(calls'[1], "columnSizing", lastSizing[1])>>]_vars
  /\ ((timers # {} /\ elapsed > 0)
        ~> (\/ op = "sizingCommit" /\ timers = {} /\ calls[1].columnSizing = lastSizing[1]
            \/ elapsed = 0))

\* a burst of two calls, the last one with {a: 100}: the commit hands over {a: 100}
C22_Witness ==
  /\ op = "sizingCommit"
  /\ burst = 2
  /\ lastSizing = <<[a |-> 100]>>
  /\ calls[1].columnSizing = [a |-> 100]
  /\ timers = {}

\* C24: the configuration a sizing commit hands to onChange is the durable
\* configuration as it is when the timer fires, with only columnSizing replaced
C24_CommitChangesOnlySizing ==
  [][op' = "sizingCommit" =>
       calls' = <<SpreadWith(config, "columnSizing", arg')>>]_vars

\* C26: once the provider is unmounted, no operation hands a configuration to onChange
C26_NoWriteAfterTeardown ==
  ~mounted => calls = <<>>

\* C23: neither the pinning.left the store exposes nor the persisted one holds an id
\* twice, whatever setters and updaters were called on a configuration that started
\* without duplicates
C23_PinnedOnce ==
  /\ DuplicateFree(LeftOf(columnPinning))
  /\ DuplicateFree(LeftOf(Get(config, "columnPinning", <<>>)))

\* C25: every sortable column of the list built from the schema has a sortingFn, and
\* that sortingFn is a comparator wrapped by withLoadingStateSort
C25_SortableWrapped ==
  Built =>
    \A i \in DOMAIN out.allColumns :
      LET column == out.allColumns[i]
      IN ("enableSorting" \in DOMAIN column /\ column.enableSorting) =>
           /\ "sortingFn" \in DOMAIN column
           /\ "decorator" \in DOMAIN column.sortingFn
           /\ column.sortingFn.decorator = "withLoadingStateSort"

\* C27: reconciling the order and the pinning a reconciliation produced gives the same
\* order and the same pinning
C27_Idempotent ==
  ("first" \in DOMAIN out /\ out.i > Len(defaultOrder)) =>
    /\ out.order = out.first.order
    /\ out.pinning = out.first.pinning

\* the second reconciliation of [custom1] with name pinned: five defaults inserted and
\* thumbnail pinned by the first, nothing changed by the second
C27_Witness ==
  /\ "first" \in DOMAIN out
  /\ out.i > Len(defaultOrder)
  /\ Get(inp, "columnOrder", <<>>) = <<"custom1">>
  /\ Get(inp, "columnPinning", <<>>) = [left |-> <<"name">>]
  /\ out.order = <<"thumbnail", "name", "subType", "status", "tags", "custom1">>
  /\ out.pinning = [left |-> <<"thumbnail", "name">>]

\* the value of a row in the column compared, Undefined when it has none
CellOf(row) ==
  IF inp.columnId = "status" THEN Get(row, "status", Undefined)
  ELSE IF inp.columnId = "attrib_priority" THEN Get(Get(row, "attrib", <<>>), "priority", Undefined)
  ELSE Get(Get(row, "attrib", <<>>), "date", Undefined)

\* the row holds true in the boolean column compared: its own field for the column
\* done, its attribute done for the column attrib_done
Done(row) ==
  \/ inp.columnId = "done" /\ "done" \in DOMAIN row /\ row.done = TRUE
  \/ /\ inp.columnId = "attrib_done"
     /\ "attrib" \in DOMAIN row /\ "done" \in DOMAIN row.attrib /\ row.attrib.done = TRUE

\* the index of a value among the options, counted from 0, -1 when it is none of them
IndexAmong(options, v) ==
  IF \E i \in DOMAIN options : options[i].value = v
  THEN (CHOOSE i \in DOMAIN options :
          options[i].value = v /\ \A j \in DOMAIN options : options[j].value = v => i <= j) - 1
  ELSE -1

\* C28: attribSort answers by the descriptor: with enum options by the two option
\* indexes alone (1 when the first row's index is the smaller, -1 otherwise);
\* otherwise with type datetime what the datetime comparator answers; otherwise with
\* type boolean a negative number for a row that is not true against a true one, a
\* positive one in the other order and 0 for two true or two not true rows; otherwise
\* what the alphanumeric comparator answers for the raw values
C28_SelectedByDescriptor ==
  (Compared /\ "decorator" \notin DOMAIN inp.sortingFn /\ inp.sortingFn.name = "attribSort") =>
    LET attrib == inp.sortingFn.attrib
        rowA == inp.rows[1]
        rowB == inp.rows[2]
    IN IF "enum" \in DOMAIN attrib
       THEN out.result = IF IndexAmong(attrib.enum, CellOf(rowA))
                              < IndexAmong(attrib.enum, CellOf(rowB)) THEN 1 ELSE -1
       ELSE IF attrib.type = "datetime"
       THEN out.result = sortingFnsDatetime(CellOf(rowA), CellOf(rowB))
       ELSE IF attrib.type = "boolean"
       THEN /\ (~Done(rowA) /\ Done(rowB)) <=> out.result < 0
            /\ (Done(rowA) /\ ~Done(rowB)) <=> out.result > 0
            /\ (Done(rowA) <=> Done(rowB)) <=> out.result = 0
       ELSE out.result = sortingFnsAlphanumeric(CellOf(rowA), CellOf(rowB))

\* the dates 9 and 10 compared as datetime: by code units, 9 after 10
C28_Witness ==
  /\ Compared
  /\ inp.sortingFn = AttribSortOf("datetime")
  /\ inp.rows = <<[name |-> "a", attrib |-> [date |-> "9"]],
                  [name |-> "a", attrib |-> [date |-> "10"]]>>
  /\ out.result = 1

\* the same dates compared as strings: as numbers, 9 before 10
C28_WitnessAlphanumeric ==
  /\ Compared
  /\ inp.sortingFn = AttribSortOf("string")
  /\ inp.rows = <<[name |-> "a", attrib |-> [date |-> "9"]],
                  [name |-> "a", attrib |-> [date |-> "10"]]>>
  /\ out.result = -1

\* a row without the flag against a row with done = true
C28_WitnessBoolean ==
  /\ Compared
  /\ inp.sortingFn = AttribSortOf("boolean")
  /\ "attrib" \in DOMAIN inp.rows[1] /\ "done" \notin DOMAIN inp.rows[1].attrib
  /\ Done(inp.rows[2])
  /\ out.result = -1

\* a row whose own field done is true against a row without the field
C28_WitnessOwnField ==
  /\ Compared
  /\ inp.sortingFn = AttribSortOf("boolean")
  /\ inp.columnId = "done"
  /\ inp.rows = <<[name |-> "a", done |-> TRUE], ValueRow("A")>>
  /\ out.result = 1

\* C29: every sort strategy answers 0 for a row against itself, and answers with
\* opposite signs, or 0 twice, for two rows taken in the two argument orders
C29_ConsistentComparator ==
  Compared =>
    /\ inp.rows[1] = inp.rows[2] => out.result = 0
    /\ Sign(out.result) = 0 - Sign(out.reversed)

\* C30: updateColumnOrder(newOrder) leaves the pinned columns the same: the ids of the
\* emitted pinning.left are the ids of pinning.left before the call, whether newOrder
\* lists every column or not
C30_OrderKeepsPinnedSet ==
  [][op' = "updateColumnOrder" =>
       Range(LeftOf(calls'[1].columnPinning)) = Range(LeftOf(columnPinning))]_vars

\* the hook reports outdated in the current render
ReportsOutdated == "isOutdated" \in DOMAIN out /\ useLoadModule(inp, out).outdated # <<>>

\* the addon of the current render is below the minimum version
BelowMinVersion ==
  LET found == FindAddon(inp.modules, inp.addon)
  IN Len(found) = 1 /\ VersionOutdated(found[1].addonVersion, inp.minVersion)

\* C31: whenever the hook reports outdated for an addon whose version is below
\* minVersion and is not its -dev build, the module it returns is the fallback, also
\* after a module was loaded under an earlier addon list
C31_OutdatedReturnsFallback ==
  (ReportsOutdated /\ BelowMinVersion) => useLoadModule(inp, out).module = Fallback

LoadSettles == Len(out'.loads) < Len(out.loads)

C32_WitnessOutdated ==
  /\ Ready(inp)
  /\ out.isOutdated /\ ~out.isLoading /\ ~out.isLoaded
  /\ out.loads = <<>> /\ ~out.effectDue

====
